---- MODULE Spec2Model ----
(***************************************************************************)
(* UMI-MIRU sea-state dashboard (src/main.py).                             *)
(*                                                                         *)
(* The script is modelled by six specifications over one set of variables: *)
(*   SpecTide    get_tide_name applied to a moon age                       *)
(*   SpecDemand  get_tokyo_demand_prediction applied to a weather payload  *)
(*   SpecRow     the body of the marine matrix loop applied to one payload *)
(*   SpecWind    the hourly wind table and the 24 h banner                 *)
(*   SpecRender  one run of the script, statement group by statement group *)
(*   SpecCache   repeated runs of the script over the st.cache_data cache  *)
(* Each specification leaves the variables of the others at their idle     *)
(* values.                                                                 *)
(*                                                                         *)
(* Encodings.  TLA+ strings are ASCII, so the Japanese literals of the     *)
(* source are romanised (table below).  Decimal numbers are integers in a  *)
(* fixed unit: moon ages, wave heights and displayed wind speeds in        *)
(* tenths, raw wind speeds in hundredths.  A timestamp string              *)
(* "YYYY-MM-DDTHH:MM" is the number of half hours since 2000-01-06T00:00,  *)
(* a date is the number of days since 2000-01-06.                          *)
(*                                                                         *)
(*   "oshio"            line 43   spring tide                              *)
(*   "nakashio"         line 44   mid tide (also the fallback, line 47)    *)
(*   "koshio"           line 45   neap tide                                *)
(*   "nagashio/wakashio" line 46  slack tide                               *)
(*   "fumei" "shike" "chui" "nagi"   lines 71-74  wave status              *)
(*   "data nashi"       lines 78, 146   no data                            *)
(*   "toku ni nashi"    line 93   nothing notable                          *)
(*   "shutoku shippai"  line 149  fetch failed                             *)
(*   "-"                line 147  no coverage                              *)
(***************************************************************************)
EXTENDS Integers, Sequences, FiniteSets, TLC

VARIABLES
    moon_age, tide,                          \* SpecTide
    now,                                     \* datetime.now() of the run
    tokyo_weather_data, demand,              \* SpecDemand
    marine_data, row_data,                   \* SpecRow
    hourly, display_df, max_wind_24h, banner, \* SpecWind
    pc, selected_location, fetched, marine_matrix_data, detail, panel, \* SpecRender
    cache, requests_sent, last_call          \* SpecCache

tideVars   == <<moon_age, tide>>
demandVars == <<tokyo_weather_data, demand>>
rowVars    == <<marine_data, row_data>>
windVars   == <<hourly, display_df, max_wind_24h, banner>>
renderVars == <<pc, selected_location, fetched, marine_matrix_data, detail, panel>>
cacheVars == <<cache, requests_sent, last_call>>
vars == <<now, tideVars, demandVars, rowVars, windVars, renderVars, cacheVars>>

\* The value of a variable that holds nothing yet (Python None, or not run).
None == "None"

IdleTide   == moon_age = 0 /\ tide = None
\* A JSON object is a record of presence flags and values; a list is a
\* sequence.  some = FALSE is Python None (no payload at all), other = TRUE is
\* a dict holding a key the script does not read.
NoDaily  == [has_time |-> FALSE, time |-> <<>>,
             has_tmin |-> FALSE,
             has_tmax |-> FALSE, temperature_2m_max |-> <<>>,
             has_pprob |-> FALSE, precipitation_probability_max |-> <<>>]
NoHourly == [has_time |-> FALSE, time |-> <<>>,
             has_wave |-> FALSE, wave_height |-> <<>>,
             has_wind |-> FALSE, wind_speed_10m |-> <<>>]
NoData   == [some |-> FALSE, other |-> FALSE,
             has_hourly |-> FALSE, hourly |-> NoHourly,
             has_daily |-> FALSE, daily |-> NoDaily]
EmptyDict == [NoData EXCEPT !.some = TRUE]
OtherDict == [NoData EXCEPT !.some = TRUE, !.other = TRUE]

\* What a call has done so far: not run, returned val, or raised.
NotRun      == [st |-> "idle", val |-> <<>>]
Returned(v) == [st |-> "returned", val |-> v]
Raised      == [st |-> "raised", val |-> <<>>]

IdleDemand == tokyo_weather_data = NoData /\ demand = NotRun
IdleRow    == marine_data = NoData /\ row_data = NotRun

\* JSON null in a list of numbers (line 139), and pandas' NaN.
Null == -1

\* The banner of lines 205-207 before it is drawn.
NoBanner == [kind |-> "", text |-> "", args |-> <<>>]

IdleWind == hourly = NoHourly /\ display_df = <<>>
            /\ max_wind_24h = Null /\ banner = NoBanner

IdleRender == pc = "idle" /\ selected_location = 0 /\ fetched = <<>>
              /\ marine_matrix_data = <<>> /\ detail = "" /\ panel = ""

\* No get_marine_data / get_weather_data call made yet in this run.
NoCall == [site |-> "", key |-> 0, was_present |-> FALSE, age_before |-> 0,
           requested |-> 0, value |-> NoData]

IdleCache == cache = <<>> /\ requests_sent = <<>> /\ last_call = NoCall

-----------------------------------------------------------------------------
(* Arithmetic helpers *)

\* Round n/d (d > 0, n >= 0) to the nearest integer, ties to the even one:
\* Python's round(), format(x, ".1f") and numpy's round on exact halves.
RoundHalfEven(n, d) ==
    LET q == n \div d
        r == n % d
    IN  IF 2 * r < d THEN q
        ELSE IF 2 * r > d THEN q + 1
        ELSE IF q % 2 = 0 THEN q ELSE q + 1

-----------------------------------------------------------------------------
(* get_tide_name, lines 41-47.  moon_age is in tenths of a day. *)

MaxMoonAgeTenths == 304

\* Mutant: the buckets written as ranges, which loses 30 to the fallback.
get_tide_name_ranges(ma10) ==
    LET ma == RoundHalfEven(ma10, 10)
    IN  IF ma \in (0..2) \cup (14..16) \cup {29} THEN "oshio"
        ELSE IF ma \in (3..5) \cup (17..19) THEN "nakashio"
        ELSE IF ma \in (6..9) \cup (20..23) THEN "koshio"
        ELSE IF ma \in (10..12) \cup (24..26) THEN "nagashio/wakashio"
        ELSE "nakashio"

get_tide_name(ma10) ==
    LET ma == RoundHalfEven(ma10, 10)
    IN  IF ma \in {0, 1, 2, 14, 15, 16, 29, 30} THEN "oshio"
        ELSE IF ma \in {3, 4, 5, 17, 18, 19} THEN "nakashio"
        ELSE IF ma \in {6, 7, 8, 9, 20, 21, 22, 23} THEN "koshio"
        ELSE IF ma \in {10, 11, 12, 24, 25, 26} THEN "nagashio/wakashio"
        ELSE "nakashio"

InitTide ==
    /\ moon_age \in 0..MaxMoonAgeTenths
    /\ tide = None
    /\ now = 0
    /\ IdleDemand /\ IdleRow /\ IdleWind /\ IdleRender /\ IdleCache

TideName ==
    /\ tide = None
    /\ tide' = get_tide_name(moon_age)
    /\ UNCHANGED <<moon_age, now, demandVars, rowVars, windVars, renderVars, cacheVars>>

NextTide == TideName

SpecTide == InitTide /\ [][NextTide]_vars

\* C7: for every moon age whose rounded integer is in 0..30, get_tide_name
\* returns a phase, with exactly the mapping {0,1,2,14,15,16,29,30} -> spring,
\* {3,4,5,17,18,19} -> mid, {6,7,8,9,20,21,22,23} -> neap,
\* {10,11,12,24,25,26} -> slack, and 13, 27, 28 -> mid; 30 resolves to spring.
TidePhaseTable ==
    [n \in 0..30 |->
        CASE n \in {0, 1, 2, 14, 15, 16, 29, 30} -> "oshio"
          [] n \in {3, 4, 5, 17, 18, 19}         -> "nakashio"
          [] n \in {6, 7, 8, 9, 20, 21, 22, 23}  -> "koshio"
          [] n \in {10, 11, 12, 24, 25, 26}      -> "nagashio/wakashio"
          [] n \in {13, 27, 28}                  -> "nakashio"]

C7_TidePhaseMapping ==
    (tide # None /\ RoundHalfEven(moon_age, 10) \in 0..30)
        => tide = TidePhaseTable[RoundHalfEven(moon_age, 10)]

\* The edge case of the claim: a moon age of 29.5 rounds to 30 and is spring.
C7_Witness ==
    moon_age = 295 /\ RoundHalfEven(moon_age, 10) = 30 /\ tide = "oshio"

-----------------------------------------------------------------------------
(* Clock readings.  datetime.now() is a half-hour count; a date string is   *)
(* the day count, which is what strftime('%Y-%m-%d'), .date() and          *)
(* fromisoformat(...).date() extract from it.                              *)

DateOf(t) == t \div 48

\* The days on which the script is run, and the times of day (half hours).
FirstDay == 9796
NumDays  == 2
NowChoices ==
    {d * 48 + h : d \in FirstDay..(FirstDay + NumDays - 1), h \in {0, 21, 47}}

-----------------------------------------------------------------------------
(* get_tokyo_demand_prediction, lines 76-93.  Temperatures are in tenths of *)
(* a degree, probabilities in percent.  A text is a sequence of parts, one  *)
(* per joined reason; n is the number formatted into the part.              *)

DataNashi   == <<[text |-> "data nashi", n |-> 0]>>
TokuNiNashi == <<[text |-> "toku ni nashi", n |-> 0]>>
KionTeika   == [text |-> "kion teika(nabe)", n |-> 0]
Ame(p)      == [text |-> "ame{p}%(kyakuashi)", n |-> p]

\* bool(tokyo_weather_data): None and the empty dict are falsy.
Truthy(data) == data.some /\ (data.other \/ data.has_hourly \/ data.has_daily)

\* Lines 81-85: the index of the first entry equal to today_str, 0 for the
\* source's -1 (Python indexes from 0, sequences here from 1).
TodayIndex(time, today_str) ==
    IF \E i \in 1..Len(time) : time[i] = today_str
    THEN CHOOSE i \in 1..Len(time) :
            /\ time[i] = today_str
            /\ \A j \in 1..(i - 1) : time[j] # today_str
    ELSE 0

get_tokyo_demand_prediction(data, clock) ==
    IF ~Truthy(data) \/ ~data.has_daily THEN Returned(DataNashi)
    ELSE
    LET daily_data == data.daily
        today_str == DateOf(clock)
    IN  IF ~daily_data.has_time THEN Raised                 \* KeyError, line 82
        ELSE
        LET today_index == TodayIndex(daily_data.time, today_str)
        IN  IF today_index = 0 THEN Returned(TokuNiNashi)   \* lines 87, 92-93
            ELSE IF \/ ~daily_data.has_tmax                 \* KeyError, line 88
                    \/ today_index > Len(daily_data.temperature_2m_max)
                 THEN Raised
            ELSE IF \/ ~daily_data.has_pprob                \* KeyError, line 90
                    \/ today_index > Len(daily_data.precipitation_probability_max)
                 THEN Raised
            ELSE
            LET temp_today_max == daily_data.temperature_2m_max[today_index]
                precip_prob == daily_data.precipitation_probability_max[today_index]
                r1 == IF temp_today_max < 100 THEN <<KionTeika>> ELSE <<>>
                r2 == IF precip_prob >= 50 THEN <<Ame(precip_prob)>> ELSE <<>>
                recommendation == r1 \o r2
            IN  IF recommendation # <<>> THEN Returned(recommendation)
                ELSE Returned(TokuNiNashi)

\* Daily series of the weather API: consecutive dates from first, one value
\* per date in each field that is present.
MaxDaily == 2
TempChoices  == {90, 150}
PprobChoices == {10, 60}

SeqsOfLen(S, n) == [1..n -> S]

DailyOfLen(n) ==
    { [has_time |-> ht, time |-> IF ht THEN [i \in 1..n |-> first + i - 1] ELSE <<>>,
       has_tmin |-> TRUE, has_tmax |-> TRUE, temperature_2m_max |-> tm,
       has_pprob |-> TRUE, precipitation_probability_max |-> pp] :
        ht \in BOOLEAN, first \in {FirstDay - 1, FirstDay, FirstDay + 1},
        tm \in SeqsOfLen(TempChoices, n), pp \in SeqsOfLen(PprobChoices, n) }

DailySeries ==
    UNION { DailyOfLen(n) : n \in 1..MaxDaily }
    \cup
    { [has_time |-> TRUE, time |-> <<>>,
       has_tmin |-> TRUE, has_tmax |-> TRUE, temperature_2m_max |-> <<>>,
       has_pprob |-> TRUE, precipitation_probability_max |-> <<>>] }

DemandInputs ==
    {NoData, EmptyDict, OtherDict}
    \cup { [EmptyDict EXCEPT !.has_daily = TRUE, !.daily = d] :
            d \in DailySeries }

InitDemand ==
    /\ now \in NowChoices
    /\ tokyo_weather_data \in DemandInputs
    /\ demand = NotRun
    /\ IdleTide /\ IdleRow /\ IdleWind /\ IdleRender /\ IdleCache

DemandPrediction ==
    /\ demand = NotRun
    /\ demand' = get_tokyo_demand_prediction(tokyo_weather_data, now)
    /\ UNCHANGED <<now, tokyo_weather_data, tideVars, rowVars, windVars, renderVars, cacheVars>>

NextDemand == DemandPrediction

SpecDemand == InitDemand /\ [][NextDemand]_vars

\* The daily series is present (with its list of dates) and no entry is today.
DailyWithoutToday ==
    /\ Truthy(tokyo_weather_data)
    /\ tokyo_weather_data.has_daily
    /\ tokyo_weather_data.daily.has_time
    /\ \A i \in 1..Len(tokyo_weather_data.daily.time) :
            tokyo_weather_data.daily.time[i] # DateOf(now)

\* C1: for every daily forecast series that is present but contains no entry
\* whose date equals today, the result is the "no data" sentinel, and not the
\* "nothing notable" sentinel nor any reason string.
C1_NoTodayIsNoData ==
    (demand # NotRun /\ DailyWithoutToday) => demand = Returned(DataNashi)

\* What the code does in the case of C1: it returns "nothing notable".
C1_Witness ==
    /\ DailyWithoutToday
    /\ Len(tokyo_weather_data.daily.time) > 0
    /\ demand = Returned(TokuNiNashi)

-----------------------------------------------------------------------------
(* The marine matrix, lines 128-149.  Wave heights are in tenths of a metre. *)

\* range(3) of line 128.
HorizonDays == 3

\* Line 38: days_diff % 29.53059 in units of 1e-5 day; line 39: round(_, 1).
calculate_moon_age(date) == RoundHalfEven((date * 100000) % 2953059, 10000)

\* Lines 70-74, on the mean total/count of a non-empty list (never None here).
get_wave_status_text(total, count) ==
    IF total >= 25 * count THEN "shike"
    ELSE IF total >= 15 * count THEN "chui"
    ELSE "nagi"

SumSeq(s) ==
    LET f[k \in 0..Len(s)] == IF k = 0 THEN 0 ELSE f[k - 1] + s[k]
    IN  f[Len(s)]

\* Line 137: [j for j, time_str in enumerate(time) if date(time_str) == date].
DayIndices(time, date) ==
    LET f[k \in 0..Len(time)] ==
            IF k = 0 THEN <<>>
            ELSE IF DateOf(time[k]) = date THEN Append(f[k - 1], k) ELSE f[k - 1]
    IN  f[Len(time)]

\* Line 139: [wave_height[j] for j in indices if wave_height[j] is not None].
ValidWaves(wave_height, indices) ==
    LET f[k \in 0..Len(indices)] ==
            IF k = 0 THEN <<>>
            ELSE IF wave_height[indices[k]] # Null
                 THEN Append(f[k - 1], wave_height[indices[k]])
                 ELSE f[k - 1]
    IN  f[Len(indices)]

\* A cell of the matrix.  text is the literal or the f-string template; the
\* other fields are the values formatted into the template.
TextCell(t) == [text |-> t, status |-> "", avg |-> 0, tide |-> "", moon |-> 0]
SummaryCell(status_text, avg10, tide_name, moon_age_val) ==
    [text |-> "{status} {avg:.1f}m ({tide}, getsurei{moon:.1f})",
     status |-> status_text, avg |-> avg10,
     tide |-> tide_name, moon |-> moon_age_val]
RaisedCell == TextCell("raise")

\* Mutant: the mean taken over every sample of the day, a null counted as 0.
DayCell_nulls_as_zero(h, date) ==
    IF ~h.has_time THEN RaisedCell
    ELSE
    LET current_day_indices == DayIndices(h.time, date)
    IN  IF current_day_indices = <<>> THEN TextCell("-")
        ELSE IF ~h.has_wave THEN RaisedCell
        ELSE IF \E k \in 1..Len(current_day_indices) :
                    current_day_indices[k] > Len(h.wave_height)
             THEN RaisedCell
        ELSE
        LET daily_waves == ValidWaves(h.wave_height, current_day_indices)
        IN  IF daily_waves # <<>>
            THEN LET total == SumSeq(daily_waves)
                     count == Len(current_day_indices)
                     status_text == get_wave_status_text(total, count)
                     moon_age_val == calculate_moon_age(date)
                     tide_name == get_tide_name(moon_age_val)
                 IN  SummaryCell(status_text, RoundHalfEven(total, count),
                                 tide_name, moon_age_val)
            ELSE TextCell("data nashi")

\* Mutant: a day whose samples are all null shown as "-", like no coverage.
DayCell_collapsed(h, date) ==
    IF ~h.has_time THEN RaisedCell
    ELSE
    LET current_day_indices == DayIndices(h.time, date)
    IN  IF current_day_indices = <<>> THEN TextCell("-")
        ELSE IF ~h.has_wave THEN RaisedCell
        ELSE IF \E k \in 1..Len(current_day_indices) :
                    current_day_indices[k] > Len(h.wave_height)
             THEN RaisedCell
        ELSE
        LET daily_waves == ValidWaves(h.wave_height, current_day_indices)
        IN  IF daily_waves # <<>>
            THEN LET total == SumSeq(daily_waves)
                     count == Len(daily_waves)
                     status_text == get_wave_status_text(total, count)
                     moon_age_val == calculate_moon_age(date)
                     tide_name == get_tide_name(moon_age_val)
                 IN  SummaryCell(status_text, RoundHalfEven(total, count),
                                 tide_name, moon_age_val)
            ELSE TextCell("-")

\* Lines 137-147, for one date, on a payload's hourly object h.
DayCell(h, date) ==
    IF ~h.has_time THEN RaisedCell                           \* KeyError, line 137
    ELSE
    LET current_day_indices == DayIndices(h.time, date)
    IN  IF current_day_indices = <<>> THEN TextCell("-")
        ELSE IF ~h.has_wave THEN RaisedCell                  \* KeyError, line 139
        ELSE IF \E k \in 1..Len(current_day_indices) :       \* IndexError
                    current_day_indices[k] > Len(h.wave_height)
             THEN RaisedCell
        ELSE
        LET daily_waves == ValidWaves(h.wave_height, current_day_indices)
        IN  IF daily_waves # <<>>
            THEN LET total == SumSeq(daily_waves)          \* np.mean = total/count
                     count == Len(daily_waves)
                     status_text == get_wave_status_text(total, count)
                     moon_age_val == calculate_moon_age(date)
                     tide_name == get_tide_name(moon_age_val)
                 IN  SummaryCell(status_text, RoundHalfEven(total, count),
                                 tide_name, moon_age_val)
            ELSE TextCell("data nashi")

\* Lines 134-149: the row of one location, or the exception that ends the run.
MatrixRow(data, clock) ==
    IF Truthy(data) /\ data.has_hourly
    THEN LET cells == [i \in 1..HorizonDays |->
                          DayCell(data.hourly, DateOf(clock) + i - 1)]
         IN  IF \E i \in 1..HorizonDays : cells[i] = RaisedCell
             THEN Raised ELSE Returned(cells)
    ELSE Returned([i \in 1..HorizonDays |-> TextCell("shutoku shippai")])

\* Hourly series of the marine API: distinct timestamps in chronological
\* order, one wave height (or null) per timestamp.  Heights are whole metres, so that
\* the floating-point mean and its one-decimal format are exact.
MaxSamples  == 4
WaveChoices == {Null, 10, 20, 30}
TimeChoices ==
    {FirstDay * 48 + 40, FirstDay * 48 + 42, FirstDay * 48 + 44,
     FirstDay * 48 + 46, (FirstDay + 1) * 48, (FirstDay + 3) * 48 + 24}

SortedTimes(n) ==
    {t \in SeqsOfLen(TimeChoices, n) : \A i \in 1..(n - 1) : t[i] < t[i + 1]}

MarineHourly(t, w) ==
    [NoHourly EXCEPT !.has_time = TRUE, !.time = t,
                     !.has_wave = TRUE, !.wave_height = w,
                     !.has_wind = TRUE,
                     !.wind_speed_10m = [i \in 1..Len(t) |-> 300]]

MarineSeries ==
    UNION { { MarineHourly(t, w) : t \in SortedTimes(n), w \in SeqsOfLen(WaveChoices, n) }
            : n \in 0..MaxSamples }

\* Payloads that lack a field or have one list shorter than the other.
MalformedHourly ==
    { NoHourly,
      [MarineHourly(<<FirstDay * 48 + 46>>, <<10>>) EXCEPT !.has_wave = FALSE,
                                                          !.wave_height = <<>>],
      [MarineHourly(<<(FirstDay + 3) * 48 + 24>>, <<10>>) EXCEPT !.has_wave = FALSE,
                                                          !.wave_height = <<>>],
      MarineHourly(<<FirstDay * 48 + 46, (FirstDay + 1) * 48>>, <<10>>) }

WithHourly(h) == [EmptyDict EXCEPT !.has_hourly = TRUE, !.hourly = h]

RowInputs ==
    {NoData, EmptyDict, OtherDict}
    \cup { WithHourly(h) : h \in MarineSeries \cup MalformedHourly }

InitRow ==
    /\ now \in NowChoices
    /\ marine_data \in RowInputs
    /\ row_data = NotRun
    /\ IdleTide /\ IdleDemand /\ IdleWind /\ IdleRender /\ IdleCache

BuildRow ==
    /\ row_data = NotRun
    /\ row_data' = MatrixRow(marine_data, now)
    /\ UNCHANGED <<now, marine_data, tideVars, demandVars, windVars, renderVars, cacheVars>>

NextRow == BuildRow

SpecRow == InitRow /\ [][NextRow]_vars

\* The indices of the samples of a date, and those with a wave height.
SamplesOn(h, date) == {j \in 1..Len(h.time) : DateOf(h.time[j]) = date}
ValidOn(h, date)   == {j \in SamplesOn(h, date) : h.wave_height[j] # Null}

RECURSIVE SumOver(_, _)
SumOver(w, J) ==
    IF J = {} THEN 0
    ELSE LET j == CHOOSE x \in J : TRUE IN w[j] + SumOver(w, J \ {j})

\* Which of the four cases of the matrix a payload and a date are in.
CellCondition(data, date) ==
    IF ~(Truthy(data) /\ data.has_hourly) THEN "series absent"
    ELSE IF SamplesOn(data.hourly, date) = {} THEN "no sample on the date"
    ELSE IF ValidOn(data.hourly, date) = {} THEN "all heights null"
    ELSE "some height"

SummaryText == "{status} {avg:.1f}m ({tide}, getsurei{moon:.1f})"

CellTextOf ==
    [c \in {"series absent", "no sample on the date", "all heights null", "some height"} |->
        CASE c = "series absent"         -> "shutoku shippai"
          [] c = "no sample on the date" -> "-"
          [] c = "all heights null"      -> "data nashi"
          [] c = "some height"           -> SummaryText]

RequestedDate(i) == DateOf(now) + i - 1

\* C2: every cell of a row is in exactly one of four states: series absent ->
\* "fetch failed" for every date of the row; series present but no sample on
\* the date -> "-"; samples on the date but all heights null -> "no data"; at
\* least one height -> a computed summary.  Two cells whose conditions differ
\* never have the same text.
C2_FourCellStates ==
    row_data.st = "returned" =>
        /\ \A i \in 1..HorizonDays :
              /\ row_data.val[i].text =
                    CellTextOf[CellCondition(marine_data, RequestedDate(i))]
              /\ (row_data.val[i].text = SummaryText) <=>
                    (row_data.val[i].status \in {"shike", "chui", "nagi"})
        /\ CellCondition(marine_data, RequestedDate(1)) = "series absent" =>
              \A i \in 1..HorizonDays : row_data.val[i] = TextCell("shutoku shippai")
        /\ \A i, k \in 1..HorizonDays :
              CellCondition(marine_data, RequestedDate(i))
                    # CellCondition(marine_data, RequestedDate(k))
                => row_data.val[i].text # row_data.val[k].text

\* One row showing three of the states side by side: "no data" today, a
\* summary tomorrow, "-" on the third day.
C2_Witness ==
    /\ row_data.st = "returned"
    /\ row_data.val[1].text = "data nashi"
    /\ row_data.val[2].text = SummaryText
    /\ row_data.val[3].text = "-"
    /\ CellCondition(marine_data, RequestedDate(1)) = "all heights null"

\* C8: for every date with at least one non-null wave height, the displayed
\* average (one decimal) is the sum of the non-null heights of the samples of
\* that date divided by their count; nulls and samples of other dates are in
\* neither the sum nor the divisor.
C8_DayAverage ==
    row_data.st = "returned" =>
        \A i \in 1..HorizonDays :
            CellCondition(marine_data, RequestedDate(i)) = "some height" =>
                LET J == ValidOn(marine_data.hourly, RequestedDate(i))
                IN  /\ row_data.val[i].text = SummaryText
                    /\ row_data.val[i].avg =
                          RoundHalfEven(SumOver(marine_data.hourly.wave_height, J),
                                        Cardinality(J))

\* The example of the claim: [1.0, 2.0, null, 3.0] on one date gives 2.0.
C8_Witness ==
    /\ row_data.st = "returned"
    /\ Len(marine_data.hourly.time) = 4
    /\ \A j \in 1..4 : DateOf(marine_data.hourly.time[j]) = DateOf(now)
    /\ marine_data.hourly.wave_height = <<10, 20, Null, 30>>
    /\ row_data.val[1].avg = 20

\* A null and a sample of the next date beside the heights that are averaged:
\* [1.0, null, 2.0] today and 3.0 tomorrow give 1.5 today, from two samples.
C8_WitnessOtherDate ==
    /\ row_data.st = "returned"
    /\ Len(marine_data.hourly.time) = 4
    /\ \A j \in 1..3 : DateOf(marine_data.hourly.time[j]) = DateOf(now)
    /\ DateOf(marine_data.hourly.time[4]) = DateOf(now) + 1
    /\ marine_data.hourly.wave_height = <<10, Null, 20, 30>>
    /\ row_data.val[1].avg = 15 /\ row_data.val[2].avg = 30

-----------------------------------------------------------------------------
(* The wind table and banner of the weather panel, lines 187-207.  Raw wind *)
(* speeds are in hundredths of m/s, displayed ones in tenths.               *)

\* head(24) of line 191.
WindowHours == 24

\* Line 190: the rows with time >= now, in the order of the frame.
FutureIndices(time, clock) ==
    LET f[k \in 0..Len(time)] ==
            IF k = 0 THEN <<>>
            ELSE IF time[k] >= clock THEN Append(f[k - 1], k) ELSE f[k - 1]
    IN  f[Len(time)]

\* DataFrame.head(n).
HeadRows(s, n) == IF Len(s) <= n THEN s ELSE SubSeq(s, 1, n)

\* Mutant: the window cut before the rows of the past are dropped.
WindTable_head_first(h, clock) ==
    LET first == HeadRows([k \in 1..Len(h.time) |-> k], WindowHours)
        kept == FutureIndices([k \in 1..Len(first) |-> h.time[first[k]]], clock)
    IN  [k \in 1..Len(kept) |->
            [time |-> h.time[kept[k]],
             time_str |-> h.time[kept[k]] % 48,
             wind_speed_10m |-> RoundHalfEven(h.wind_speed_10m[kept[k]], 10)]]

\* Lines 187-194: display_df, one row per displayed sample.  time_str is the
\* '%H:%M' label, the half hour of the day.
WindTable(h, clock) ==
    LET kept == HeadRows(FutureIndices(h.time, clock), WindowHours)
    IN  [k \in 1..Len(kept) |->
            [time |-> h.time[kept[k]],
             time_str |-> h.time[kept[k]] % 48,
             wind_speed_10m |-> RoundHalfEven(h.wind_speed_10m[kept[k]], 10)]]

\* Line 204: Series.max(), NaN on an empty column.
MaxWind(df) ==
    IF df = <<>> THEN Null
    ELSE CHOOSE m \in {df[k].wind_speed_10m : k \in 1..Len(df)} :
            \A k \in 1..Len(df) : df[k].wind_speed_10m <= m

\* Mutant: the moderate band starting above 5 instead of at 5.
WindBanner_exclusive(max_wind) ==
    IF max_wind # Null /\ max_wind >= 100
    THEN [kind |-> "error",
          text |-> "kongo 24 jikan: saidai{max_wind_24h:.1f}m/s no kyofu yoho",
          args |-> <<max_wind>>]
    ELSE IF max_wind # Null /\ max_wind > 50
    THEN [kind |-> "warning",
          text |-> "kongo 24 jikan: saidai{max_wind_24h:.1f}m/s no kaze ari",
          args |-> <<max_wind>>]
    ELSE [kind |-> "success", text |-> "kongo 24 jikan wa odayaka", args |-> <<>>]

\* Lines 205-207.  args are the values formatted into the f-string; a
\* comparison with NaN is false.
WindBanner(max_wind) ==
    IF max_wind # Null /\ max_wind >= 100
    THEN [kind |-> "error",
          text |-> "kongo 24 jikan: saidai{max_wind_24h:.1f}m/s no kyofu yoho",
          args |-> <<max_wind>>]
    ELSE IF max_wind # Null /\ max_wind >= 50
    THEN [kind |-> "warning",
          text |-> "kongo 24 jikan: saidai{max_wind_24h:.1f}m/s no kaze ari",
          args |-> <<max_wind>>]
    ELSE [kind |-> "success", text |-> "kongo 24 jikan wa odayaka", args |-> <<>>]

\* Hourly series of the weather API: n samples one hour apart from start,
\* the speed base everywhere but peak at one position.  No speed is an exact
\* half of a tenth, so that rounding does not depend on the binary fraction.
MaxHourly   == 27
BaseSpeeds  == {120, 504}
PeakSpeeds  == {120, 496, 996, 1234}
StartChoices == {FirstDay * 48 - 4, FirstDay * 48, FirstDay * 48 + 20}

WeatherHourly(start, n, base, peak, at) ==
    [NoHourly EXCEPT !.has_time = TRUE,
                     !.time = [i \in 1..n |-> start + 2 * (i - 1)],
                     !.has_wind = TRUE,
                     !.wind_speed_10m = [i \in 1..n |-> IF i = at THEN peak ELSE base]]

WindInputs ==
    { WeatherHourly(start, n, base, peak, at) :
        start \in StartChoices, n \in 0..MaxHourly,
        base \in BaseSpeeds, peak \in PeakSpeeds, at \in 1..MaxHourly }

InitWind ==
    /\ now \in NowChoices
    /\ hourly \in WindInputs
    /\ display_df = <<>>
    /\ max_wind_24h = Null
    /\ banner = NoBanner
    /\ IdleTide /\ IdleDemand /\ IdleRow /\ IdleRender /\ IdleCache

WindPanel ==
    /\ banner = NoBanner
    /\ display_df' = WindTable(hourly, now)
    /\ max_wind_24h' = MaxWind(display_df')
    /\ banner' = WindBanner(max_wind_24h')
    /\ UNCHANGED <<now, hourly, tideVars, demandVars, rowVars, renderVars, cacheVars>>

NextWind == WindPanel

SpecWind == InitWind /\ [][NextWind]_vars

\* The band of a displayed speed, spec 4.3.
windRisk(speed10) ==
    IF speed10 >= 100 THEN "HIGH" ELSE IF speed10 >= 50 THEN "MODERATE" ELSE "LOW"

BannerOfBand ==
    [b \in {"HIGH", "MODERATE", "LOW"} |->
        CASE b = "HIGH" -> "error" [] b = "MODERATE" -> "warning" [] b = "LOW" -> "success"]

\* C5 as stated: the banner is the template of the band of the maximum, and
\* in each of the three bands it carries the literal maximum.
C5_BannerCarriesMaxInEveryBand ==
    (banner # NoBanner /\ max_wind_24h # Null) =>
        /\ banner.kind = BannerOfBand[windRisk(max_wind_24h)]
        /\ banner.args = <<max_wind_24h>>

\* C5, amended: the banner is the template of the band of the maximum; the
\* HIGH and MODERATE banners carry the literal maximum, the LOW banner is a
\* fixed text that carries no value.
C5_BannerOfBand ==
    (banner # NoBanner /\ max_wind_24h # Null) =>
        /\ banner.kind = BannerOfBand[windRisk(max_wind_24h)]
        /\ windRisk(max_wind_24h) \in {"HIGH", "MODERATE"} =>
              banner.args = <<max_wind_24h>>
        /\ windRisk(max_wind_24h) = "LOW" => banner.args = <<>>

\* A maximum of exactly 5.0 m/s, shown in the MODERATE banner.
C5_Witness ==
    /\ max_wind_24h = 50
    /\ banner.kind = "warning"
    /\ banner.args = <<50>>

\* The samples of the series that are not in the past.
NotPast == {j \in 1..Len(hourly.time) : hourly.time[j] >= now}

\* C9: the displayed sequence is exactly the first 24 samples (or all, if
\* fewer) among those with timestamp >= now, in their original order; no
\* sample with timestamp < now appears; the reported maximum is the maximum
\* of the speeds of exactly the displayed samples.
C9_WindWindow ==
    banner # NoBanner =>
        /\ Len(display_df) =
              IF Cardinality(NotPast) <= WindowHours
              THEN Cardinality(NotPast) ELSE WindowHours
        /\ \A k \in 1..Len(display_df) :
              \E j \in NotPast :
                  /\ Cardinality({i \in NotPast : i < j}) = k - 1
                  /\ display_df[k].time = hourly.time[j]
                  /\ display_df[k].wind_speed_10m =
                        RoundHalfEven(hourly.wind_speed_10m[j], 10)
                  /\ display_df[k].time >= now
        /\ \A k \in 1..Len(display_df) :
              display_df[k].wind_speed_10m <= max_wind_24h
        /\ display_df # <<>> =>
              \E k \in 1..Len(display_df) :
                  display_df[k].wind_speed_10m = max_wind_24h

\* Samples of the past and more than 24 of the future, with the largest
\* speed in a future sample beyond the window: it is not reported.
C9_Witness ==
    /\ banner # NoBanner
    /\ Len(display_df) = WindowHours
    /\ \E j \in 1..Len(hourly.time) : hourly.time[j] < now
    /\ \E j \in NotPast :
          /\ Cardinality({i \in NotPast : i < j}) >= WindowHours
          /\ RoundHalfEven(hourly.wind_speed_10m[j], 10) > max_wind_24h

-----------------------------------------------------------------------------
(* One run of the script, lines 116-260.  The values returned by            *)
(* get_marine_data and get_weather_data are the inputs of the run.          *)

\* The marine locations of LOCATIONS (lines 16-30), by position in
\* marine_keys (line 116); the table has 12, the model the first NumMarine.
NumMarine == 2
marine_keys == [i \in 1..NumMarine |-> i]

FetchFailedRow == [i \in 1..HorizonDays |-> TextCell("shutoku shippai")]

\* Mutant: a failed fetch skips the location instead of adding its row.
AppendRow_skip_failed(matrix, loc_name, data, clock) ==
    IF Truthy(data) /\ data.has_hourly
    THEN Append(matrix, [kyoten |-> loc_name, cells |-> MatrixRow(data, clock).val])
    ELSE matrix

\* Lines 134-149: marine_matrix_data.append(...) for one location whose row
\* does not raise.  kyoten is the location column.
AppendRow(matrix, loc_name, data, clock) ==
    Append(matrix, [kyoten |-> loc_name, cells |-> MatrixRow(data, clock).val])

\* pd.DataFrame(dict of lists), lines 168 and 187: the lists present must
\* have one length (ValueError otherwise).
FrameOK(h) ==
    LET lens == (IF h.has_time THEN {Len(h.time)} ELSE {})
                \cup (IF h.has_wave THEN {Len(h.wave_height)} ELSE {})
                \cup (IF h.has_wind THEN {Len(h.wind_speed_10m)} ELSE {})
    IN  Cardinality(lens) <= 1

\* Lines 166-175: the detail charts of the selected location.
DetailPanel(data) ==
    IF Truthy(data) /\ data.has_hourly
    THEN IF ~FrameOK(data.hourly) THEN "raise"               \* ValueError, line 168
         ELSE IF ~data.hourly.has_time THEN "raise"          \* KeyError, line 169
         ELSE IF ~data.hourly.has_wave THEN "raise"          \* KeyError, line 173
         ELSE IF ~data.hourly.has_wind THEN "raise"          \* KeyError, line 174
         ELSE "charts"
    ELSE "data shutoku shippai"

\* Lines 209-214: the weekly table needs the four columns, of one length.
WeeklyTableOK(data) ==
    ~data.has_daily
    \/ /\ data.daily.has_time /\ data.daily.has_tmax
       /\ data.daily.has_tmin /\ data.daily.has_pprob
       /\ Len(data.daily.time) = Len(data.daily.temperature_2m_max)
       /\ Len(data.daily.time) = Len(data.daily.precipitation_probability_max)

\* Lines 180-215: the weather panel; "raise" is an exception that ends the run.
WeatherPanel(data, clock) ==
    IF ~Truthy(data) THEN "tokyo no data shutoku fuka"
    ELSE IF get_tokyo_demand_prediction(data, clock) = Raised THEN "raise"
    ELSE IF ~data.has_hourly THEN "raise"                    \* KeyError, line 187
    ELSE IF ~FrameOK(data.hourly) THEN "raise"               \* ValueError, line 187
    ELSE IF ~data.hourly.has_time THEN "raise"               \* KeyError, line 188
    ELSE IF ~data.hourly.has_wind THEN "raise"               \* KeyError, line 194
    ELSE IF ~WeeklyTableOK(data) THEN "raise"                \* lines 210-214
    ELSE "shown"

\* Payloads of the marine API as a run may receive them.
GoodHourly ==
    MarineHourly(<<FirstDay * 48 + 44, FirstDay * 48 + 46, (FirstDay + 1) * 48>>,
                 <<10, Null, 30>>)
RenderMarineInputs ==
    {NoData, EmptyDict, OtherDict,
     WithHourly(NoHourly),
     WithHourly(MarineHourly(<<>>, <<>>)),
     WithHourly([MarineHourly(<<FirstDay * 48 + 46>>, <<10>>)
                    EXCEPT !.has_wave = FALSE, !.wave_height = <<>>]),
     WithHourly(GoodHourly)}

\* Payloads of the weather API as a run may receive them.
GoodDaily ==
    [has_time |-> TRUE, time |-> <<FirstDay, FirstDay + 1>>,
     has_tmin |-> TRUE, has_tmax |-> TRUE, temperature_2m_max |-> <<90, 150>>,
     has_pprob |-> TRUE, precipitation_probability_max |-> <<60, 10>>]
EmptyDaily ==
    [has_time |-> TRUE, time |-> <<>>,
     has_tmin |-> TRUE, has_tmax |-> TRUE, temperature_2m_max |-> <<>>,
     has_pprob |-> TRUE, precipitation_probability_max |-> <<>>]
GoodWind == WeatherHourly(FirstDay * 48, 4, 120, 996, 2)
RenderWeatherInputs ==
    {NoData, EmptyDict, OtherDict,
     [EmptyDict EXCEPT !.has_hourly = TRUE, !.hourly = GoodWind,
                       !.has_daily = TRUE, !.daily = GoodDaily],
     [EmptyDict EXCEPT !.has_hourly = TRUE, !.hourly = GoodWind],
     [EmptyDict EXCEPT !.has_hourly = TRUE, !.hourly = WeatherHourly(FirstDay * 48, 0, 120, 120, 1),
                       !.has_daily = TRUE, !.daily = EmptyDaily],
     [EmptyDict EXCEPT !.has_hourly = TRUE, !.hourly = NoHourly,
                       !.has_daily = TRUE, !.daily = GoodDaily],
     [EmptyDict EXCEPT !.has_daily = TRUE, !.daily = GoodDaily],
     [EmptyDict EXCEPT !.has_hourly = TRUE, !.hourly = GoodWind,
                       !.has_daily = TRUE, !.daily = NoDaily]}

InitRender ==
    /\ now \in NowChoices
    /\ selected_location \in 1..NumMarine
    /\ pc = "matrix"
    /\ fetched = <<>>
    /\ marine_matrix_data = <<>>
    /\ detail = ""
    /\ panel = ""
    /\ IdleTide /\ IdleDemand /\ IdleRow /\ IdleWind /\ IdleCache

\* One iteration of the loop of line 131, for marine_keys[Len(fetched) + 1].
MatrixStep ==
    /\ pc = "matrix"
    /\ \E data \in RenderMarineInputs :
          LET loc_name == marine_keys[Len(fetched) + 1]
          IN  /\ fetched' = Append(fetched, data)
              /\ IF MatrixRow(data, now) = Raised
                 THEN /\ pc' = "aborted"
                      /\ UNCHANGED marine_matrix_data
                 ELSE /\ marine_matrix_data' =
                            AppendRow(marine_matrix_data, loc_name, data, now)
                      /\ pc' = IF Len(fetched) + 1 = NumMarine
                               THEN "detail" ELSE "matrix"
    /\ UNCHANGED <<now, selected_location, detail, panel,
                   tideVars, demandVars, rowVars, windVars, cacheVars>>

\* Lines 151-175: the matrix is drawn, then the detail of the selected
\* location, whose second get_marine_data call returns what the first did.
DetailStep ==
    /\ pc = "detail"
    /\ detail' = DetailPanel(fetched[selected_location])
    /\ pc' = IF detail' = "raise" THEN "aborted" ELSE "weather"
    /\ UNCHANGED <<now, selected_location, fetched, marine_matrix_data, panel,
                   tideVars, demandVars, rowVars, windVars, cacheVars>>

\* Lines 177-260: the weather panel, then the static remainder of the page.
WeatherStep ==
    /\ pc = "weather"
    /\ \E data \in RenderWeatherInputs :
          /\ tokyo_weather_data' = data
          /\ panel' = WeatherPanel(data, now)
          /\ pc' = IF panel' = "raise" THEN "aborted" ELSE "done"
          /\ IF panel' = "shown"
             THEN /\ demand' = get_tokyo_demand_prediction(data, now)
                  /\ hourly' = data.hourly
                  /\ display_df' = WindTable(data.hourly, now)
                  /\ max_wind_24h' = MaxWind(display_df')
                  /\ banner' = WindBanner(max_wind_24h')
             ELSE UNCHANGED <<demand, windVars>>
    /\ UNCHANGED <<now, selected_location, fetched, marine_matrix_data, detail,
                   tideVars, rowVars, cacheVars>>

NextRender == MatrixStep \/ DetailStep \/ WeatherStep

SpecRender == InitRender /\ [][NextRender]_vars

\* What the claim C3 calls absent data, for a marine payload: no response,
\* an empty dict, a dict without the expected fields, or empty lists.
MarineAbsentLike(data) ==
    \/ ~data.some
    \/ ~data.has_hourly
    \/ ~data.hourly.has_time
    \/ ~data.hourly.has_wave
    \/ data.hourly.time = <<>>

\* The same for a weather payload.
WeatherAbsentLike(data) ==
    \/ ~data.some
    \/ ~data.has_hourly
    \/ ~data.hourly.has_time
    \/ ~data.hourly.has_wind
    \/ data.hourly.time = <<>>
    \/ ~data.has_daily
    \/ ~data.daily.has_time
    \/ ~data.daily.has_tmax
    \/ ~data.daily.has_pprob

\* C3: a valid-but-empty payload, a malformed payload and no response lead to
\* the same outcome: the row of the location shows "fetch failed" (the
\* weather panel its unavailable state) and the run completes; none of the
\* three raises an error that aborts the run.
C3_BadPayloadsNormalised ==
    /\ pc # "aborted"
    /\ \A i \in 1..Len(marine_matrix_data) :
          MarineAbsentLike(fetched[i]) =>
              marine_matrix_data[i].cells = FetchFailedRow
    /\ (panel # "" /\ WeatherAbsentLike(tokyo_weather_data)) =>
          panel = "tokyo no data shutoku fuka"

\* What the code does with {"hourly": {}}: the loop raises KeyError and the
\* run ends with no matrix.
C3_WitnessAbort ==
    /\ pc = "aborted"
    /\ Len(fetched) = 1
    /\ fetched[1] = WithHourly(NoHourly)
    /\ marine_matrix_data = <<>>

\* C4: every location whose fetch failed (get_marine_data returned None) has
\* the row "fetch failed" for all 3 dates; the matrix has exactly one row per
\* marine location, in configuration order; the row of every other location
\* is the row its own payload gives, whatever the other fetches returned.
C4_FaultIsolation ==
    /\ pc = "matrix" => Len(marine_matrix_data) = Len(fetched)
    /\ pc \in {"detail", "weather", "done"} => Len(marine_matrix_data) = NumMarine
    /\ \A i \in 1..Len(marine_matrix_data) :
          /\ marine_matrix_data[i].kyoten = marine_keys[i]
          /\ ~fetched[i].some => marine_matrix_data[i].cells = FetchFailedRow
          /\ fetched[i].some =>
                marine_matrix_data[i].cells = MatrixRow(fetched[i], now).val

\* A finished matrix with a failed location before a location with data.
C4_Witness ==
    /\ pc = "done"
    /\ Len(marine_matrix_data) = NumMarine
    /\ \E i, k \in 1..NumMarine :
          /\ i < k
          /\ ~fetched[i].some
          /\ marine_matrix_data[i].cells = FetchFailedRow
          /\ fetched[k] = WithHourly(GoodHourly)
          /\ \E d \in 1..HorizonDays : marine_matrix_data[k].cells[d].text = SummaryText

-----------------------------------------------------------------------------
(* Repeated runs over the cache of @st.cache_data(ttl=3600), lines 50-68.    *)
(* An entry is the value a call returned and its age in seconds; ages stop   *)
(* counting at the TTL, past which an entry is never served again.  Keys are *)
(* the argument tuples: 1..NumMarine for get_marine_data(lat, lon) of the    *)
(* marine locations, NumMarine + 1 for get_weather_data of Tokyo.            *)

\* ttl=3600 of lines 50 and 60.
TTL == 3600

\* timeout=5 of lines 54 and 64: the longest a request takes, in seconds.
RequestTimeout == 5
\* A request that is answered quickly, and two pauses between runs.
FastRequest == 1
ShortPause  == 3590
LongPause   == 3595

RequestDurations == {FastRequest, RequestTimeout}
Pauses == {ShortPause, LongPause}

WeatherKey == NumMarine + 1

NoEntry == [present |-> FALSE, value |-> NoData, age |-> 0]

\* Mutant: the function is not cached at all.
Fresh_never(entry) == FALSE

\* An entry is served while less than ttl seconds old.
Fresh(entry) == entry.present /\ entry.age < TTL

\* d seconds pass.
Elapse(c, d) ==
    [k \in 1..Len(c) |->
        IF c[k].present
        THEN [c[k] EXCEPT !.age = IF @ + d > TTL THEN TTL ELSE @ + d]
        ELSE c[k]]

\* Mutant: only a successful response is stored.
cached_call_success_only(c, key, response, d) ==
    IF Fresh(c[key])
    THEN [value |-> c[key].value, cache |-> c, requested |-> 0]
    ELSE [value |-> response,
          cache |-> IF response.some
                    THEN [Elapse(c, d) EXCEPT
                            ![key] = [present |-> TRUE, value |-> response, age |-> 0]]
                    ELSE [Elapse(c, d) EXCEPT ![key] = NoEntry],
          requested |-> 1]

\* A call of a cached function: a fresh entry is returned as it is; otherwise
\* the body runs (lines 53-58: one requests.get taking d seconds, whose
\* outcome, None on any exception, is response) and its return value is
\* stored, None included.
cached_call(c, key, response, d) ==
    IF Fresh(c[key])
    THEN [value |-> c[key].value, cache |-> c, requested |-> 0]
    ELSE [value |-> response,
          cache |-> [Elapse(c, d) EXCEPT
                        ![key] = [present |-> TRUE, value |-> response, age |-> 0]],
          requested |-> 1]

CallRecord(site, key, c, r) ==
    [site |-> site, key |-> key,
     was_present |-> c[key].present, age_before |-> c[key].age,
     requested |-> r.requested, value |-> r.value]

\* What the upstreams answer in these runs: nothing usable, or a payload.
MarineResponses  == {NoData, WithHourly(GoodHourly)}
WeatherResponses ==
    {NoData, [EmptyDict EXCEPT !.has_hourly = TRUE, !.hourly = GoodWind,
                               !.has_daily = TRUE, !.daily = GoodDaily]}

InitCache ==
    /\ now = FirstDay * 48 + 21
    /\ pc = "idle"
    /\ selected_location = 1
    /\ fetched = <<>>
    /\ marine_matrix_data = <<>>
    /\ detail = ""
    /\ panel = ""
    /\ cache = [k \in 1..WeatherKey |-> NoEntry]
    /\ requests_sent = [k \in 1..WeatherKey |-> 0]
    /\ last_call = NoCall
    /\ IdleTide /\ IdleDemand /\ IdleRow /\ IdleWind

\* The script starts: a page load, the update button (line 120) or a change
\* of the selected location (line 119).  The cached calls take no date, so
\* the reading of datetime.now() is held at one value over the runs.
StartRun ==
    /\ pc \in {"idle", "done", "aborted"}
    /\ pc' = "matrix"
    /\ UNCHANGED now
    /\ selected_location' \in 1..NumMarine
    /\ fetched' = <<>>
    /\ marine_matrix_data' = <<>>
    /\ detail' = ""
    /\ panel' = ""
    /\ requests_sent' = [k \in 1..WeatherKey |-> 0]
    /\ last_call' = NoCall
    /\ UNCHANGED <<cache, tideVars, demandVars, rowVars, windVars>>

\* Line 133 and the loop body, through the cache.
CachedMatrixStep ==
    /\ pc = "matrix"
    /\ \E response \in MarineResponses, d \in RequestDurations :
          LET key == Len(fetched) + 1
              r == cached_call(cache, key, response, d)
          IN  /\ cache' = r.cache
              /\ last_call' = CallRecord("matrix", key, cache, r)
              /\ requests_sent' = [requests_sent EXCEPT ![key] = @ + r.requested]
              /\ fetched' = Append(fetched, r.value)
              /\ IF MatrixRow(r.value, now) = Raised
                 THEN /\ pc' = "aborted"
                      /\ UNCHANGED marine_matrix_data
                 ELSE /\ marine_matrix_data' =
                            AppendRow(marine_matrix_data, marine_keys[key], r.value, now)
                      /\ pc' = IF key = NumMarine THEN "detail" ELSE "matrix"
    /\ UNCHANGED <<now, selected_location, detail, panel,
                   tideVars, demandVars, rowVars, windVars>>

\* Line 166 and the detail charts, through the cache.
CachedDetailStep ==
    /\ pc = "detail"
    /\ \E response \in MarineResponses, d \in RequestDurations :
          LET key == selected_location
              r == cached_call(cache, key, response, d)
          IN  /\ cache' = r.cache
              /\ last_call' = CallRecord("detail", key, cache, r)
              /\ requests_sent' = [requests_sent EXCEPT ![key] = @ + r.requested]
              /\ detail' = DetailPanel(r.value)
              /\ pc' = IF detail' = "raise" THEN "aborted" ELSE "weather"
    /\ UNCHANGED <<now, selected_location, fetched, marine_matrix_data, panel,
                   tideVars, demandVars, rowVars, windVars>>

\* Line 180 and the weather panel, through the cache.
CachedWeatherStep ==
    /\ pc = "weather"
    /\ \E response \in WeatherResponses, d \in RequestDurations :
          LET r == cached_call(cache, WeatherKey, response, d)
          IN  /\ cache' = r.cache
              /\ last_call' = CallRecord("weather", WeatherKey, cache, r)
              /\ requests_sent' = [requests_sent EXCEPT ![WeatherKey] = @ + r.requested]
              /\ tokyo_weather_data' = r.value
              /\ panel' = WeatherPanel(r.value, now)
              /\ pc' = IF panel' = "raise" THEN "aborted" ELSE "done"
              /\ IF panel' = "shown"
                 THEN /\ demand' = get_tokyo_demand_prediction(r.value, now)
                      /\ hourly' = r.value.hourly
                      /\ display_df' = WindTable(r.value.hourly, now)
                      /\ max_wind_24h' = MaxWind(display_df')
                      /\ banner' = WindBanner(max_wind_24h')
                 ELSE UNCHANGED <<demand, windVars>>
    /\ UNCHANGED <<now, selected_location, fetched, marine_matrix_data, detail,
                   tideVars, rowVars>>

\* Nothing runs for a while.
Pause ==
    /\ pc = "done"
    /\ \E d \in Pauses : cache' = Elapse(cache, d)
    /\ UNCHANGED <<now, requests_sent, last_call,
                   tideVars, demandVars, rowVars, windVars, renderVars>>

NextCache ==
    StartRun \/ CachedMatrixStep \/ CachedDetailStep \/ CachedWeatherStep \/ Pause

SpecCache == InitCache /\ [][NextCache]_vars

\* The last call found an entry younger than the TTL.
LastCallFoundFresh == last_call.was_present /\ last_call.age_before < TTL

\* C6 as stated: in one run at most one request goes out per key; the second
\* get_marine_data call for the selected location is served from the cache;
\* a call less than 3600 s after the entry was stored sends no request, a
\* call after its expiry sends exactly one.
C6_DetailAlwaysFromCache ==
    /\ \A k \in 1..Len(requests_sent) : requests_sent[k] <= 1
    /\ last_call.site = "detail" => last_call.requested = 0
    /\ last_call.site # "" =>
          last_call.requested = IF LastCallFoundFresh THEN 0 ELSE 1

\* C6, amended: in one run at most one request goes out per key; a call less
\* than 3600 s after the entry was stored sends no request and returns the
\* stored value, a call after its expiry sends exactly one; the second
\* get_marine_data call for the selected location always finds an entry, and
\* is served from the cache unless that entry has reached 3600 s, which
\* happens only when the call of the loop was itself served from the cache.
C6_FetchBoundAndCache ==
    /\ \A k \in 1..Len(requests_sent) : requests_sent[k] <= 1
    /\ last_call.site # "" =>
          last_call.requested = IF LastCallFoundFresh THEN 0 ELSE 1
    /\ last_call.site = "detail" =>
          /\ last_call.was_present
          /\ last_call.requested = 1 =>
                /\ last_call.age_before >= TTL
                /\ requests_sent[selected_location] = 1
          /\ last_call.requested = 0 => last_call.value = fetched[selected_location]

\* A run in which the loop fetched the selected location and the detail call
\* was served from the cache.
C6_Witness ==
    /\ last_call.site = "detail"
    /\ last_call.requested = 0
    /\ requests_sent[selected_location] = 1

\* A run in which the loop was served an entry close to its expiry and the
\* detail call, after the request of another location, had to fetch.
C6_WitnessExpiredInRun ==
    /\ last_call.site = "detail"
    /\ last_call.requested = 1
    /\ requests_sent[selected_location] = 1

\* How a failed location is shown at the place of the last call.
LastCallShownFailed ==
    CASE last_call.site = "matrix" ->
            /\ marine_matrix_data # <<>>
            /\ marine_matrix_data[Len(marine_matrix_data)].kyoten = last_call.key
            /\ marine_matrix_data[Len(marine_matrix_data)].cells = FetchFailedRow
      [] last_call.site = "detail"  -> detail = "data shutoku shippai"
      [] last_call.site = "weather" -> panel = "tokyo no data shutoku fuka"

\* C10: a failed fetch (None) is stored like any result: for the following
\* 3600 s every call with the same arguments returns None without a request
\* and the location is shown as "fetch failed", whatever the upstream would
\* answer; the first call after expiry sends a new request.
C10_FailureIsCached ==
    last_call.site # "" =>
        /\ (last_call.requested = 1 /\ ~last_call.value.some) =>
              /\ cache[last_call.key].present
              /\ ~cache[last_call.key].value.some
        /\ \A k \in 1..Len(cache) :
              (cache[k].present /\ ~cache[k].value.some /\ cache[k].age < TTL) =>
                  /\ cached_call(cache, k, WithHourly(GoodHourly), FastRequest).requested = 0
                  /\ ~cached_call(cache, k, WithHourly(GoodHourly), FastRequest).value.some
        /\ (LastCallFoundFresh /\ ~last_call.value.some) =>
              /\ last_call.requested = 0
              /\ LastCallShownFailed
        /\ (last_call.was_present /\ last_call.age_before >= TTL) =>
              last_call.requested = 1

\* A run, most of an hour after a failed fetch, that shows the location as
\* failed from the cache.
C10_Witness ==
    /\ last_call.site = "matrix"
    /\ last_call.was_present
    /\ last_call.age_before >= ShortPause
    /\ last_call.age_before < TTL
    /\ last_call.requested = 0
    /\ ~last_call.value.some
    /\ LastCallShownFailed

====
